---- MODULE Spec2Model ----
(***************************************************************************)
(* Model of streamlit_app.py: the transcription request/response pipeline  *)
(* (transcribe_audio, log_error) and the script that calls it.  A          *)
(* Streamlit script is run from its first line to its last on every widget *)
(* event; one run is modelled as a walk of pc over the script's feature    *)
(* blocks, and the widget values are the run's inputs.                     *)
(***************************************************************************)
EXTENDS Integers, Sequences, FiniteSets, TLC

VARIABLES
    has_timestamp,  \* whether the uploaded-file object has a _timestamp attribute (line 92)
    deterministic,  \* whether the remote model is a function of the request body
    uploaded_file,  \* st.file_uploader's value: the file object (content and read position)
    lang,           \* st.selectbox's value (line 96)
    retry_button,   \* st.button("Retry Transcription")'s value (line 155)
    event,          \* the widget event that started the current script run
    widgets,        \* the widgets the current/last run has rendered
    pc,             \* position of the script run
    result,         \* the script's global `result`
    reqs,           \* the calls of transcribe_audio made by the current run, in order
    shown,          \* what the current run has rendered about results
    remote,         \* the <<body, response>> pairs the remote model has answered in this run
    crashed,        \* the exception that ended the current run, "" if none
    logfile,        \* contents of error_log.txt, a sequence of pieces
    writer,         \* per session, the state of its log_error call
    entries         \* the log lines whose log_error call has returned, in order of return

vars == <<has_timestamp, deterministic, uploaded_file, lang, retry_button, event,
          widgets, pc, result, reqs, shown, remote, crashed, logfile, writer, entries>>

(***************************************************************************)
(* Bounds                                                                  *)
(***************************************************************************)
MaxLen == 2        \* longest uploaded file, in bytes
MaxCalls == 2      \* log_error calls per session in SpecLog

Byte == {1, 2}
Langs == {"en", "es"}
Texts == {"hello", "hola"}
Sessions == {1, 2}
Times == {"t1", "t2"}
Messages == {"connection refused", "timed out"}

Contents == UNION {[1..n -> Byte] : n \in 0..MaxLen}

(***************************************************************************)
(* The remote endpoint: responses and transport faults                     *)
(***************************************************************************)
NoBody == [kind |-> "none", keys |-> {}, text |-> ""]

\* A response body: a JSON object with some of the keys text and error, JSON
\* null, or text that is not JSON.
ObjBodies ==
    {[kind |-> "obj", keys |-> k, text |-> t] :
        k \in SUBSET {"text", "error"}, t \in Texts \cup {""}}
JsonBodies ==
    {b \in ObjBodies : ("text" \in b.keys) <=> (b.text # "")}
        \cup {[kind |-> "null", keys |-> {}, text |-> ""]}
OpaqueBody == [kind |-> "invalid", keys |-> {}, text |-> "overloaded"]
HelloBody == [kind |-> "obj", keys |-> {"text"}, text |-> "hello"]

Responses ==
    {[status |-> 200, body |-> b] : b \in JsonBodies \cup {OpaqueBody}}
        \cup {[status |-> s, body |-> b] : s \in {201, 503}, b \in {HelloBody, OpaqueBody}}

\* What one call of transcribe_audio meets: a fault raised by file.read()
\* ("read") or by requests.post ("refused", "timeout"), or a response.
Outcomes ==
    {[fault |-> f, status |-> 0, body |-> NoBody] : f \in {"read", "refused", "timeout"}}
        \cup {[fault |-> "none", status |-> r.status, body |-> r.body] : r \in Responses}

\* str(e) of the exception of each fault.
StrOfFault(f) ==
    CASE f = "read" -> "I/O operation on closed file"
      [] f = "refused" -> "connection refused"
      [] f = "timeout" -> "timed out"
      [] f = "json" -> "Expecting value"
      [] OTHER -> ""

(***************************************************************************)
(* transcribe_audio (lines 15-25)                                          *)
(***************************************************************************)
NoFile == [present |-> FALSE, content |-> <<>>, pos |-> 0]
NoErr == [kind |-> "none", status |-> 0, body |-> NoBody, msg |-> ""]
Unbound == [type |-> "unbound", keys |-> {}, text |-> "", error |-> NoErr]

\* file.read(): the bytes from the read position to the end; the position
\* is left at the end.
FileRead(file) ==
    [data |-> SubSeq(file.content, file.pos + 1, Len(file.content)),
     file |-> [file EXCEPT !.pos = Len(file.content)]]

\* response.json() of a body that is JSON.
ResponseJson(body) ==
    IF body.kind = "obj"
    THEN [type |-> "dict", keys |-> body.keys, text |-> body.text,
          error |-> IF "error" \in body.keys
                    THEN [kind |-> "remote", status |-> 0, body |-> NoBody,
                          msg |-> "model is loading"]
                    ELSE NoErr]
    ELSE [type |-> "null", keys |-> {}, text |-> "", error |-> NoErr]

\* {"error": f"API Error: {response.status_code} - {response.text}"}
ApiErrorDict(status, body) ==
    [type |-> "dict", keys |-> {"error"}, text |-> "",
     error |-> [kind |-> "api", status |-> status, body |-> body, msg |-> "API Error"]]

\* {"error": str(e)}
ExceptionDict(f) ==
    [type |-> "dict", keys |-> {"error"}, text |-> "",
     error |-> [kind |-> "exception", status |-> 0, body |-> NoBody, msg |-> StrOfFault(f)]]

ExceptClauseNarrow(f) == f \in {"refused", "timeout"}
\* `except Exception` (line 24): which faults raised in the try block it catches.
ExceptClause(f) == TRUE

\* The status test of line 20.
IsOk(status) == status = 200

\* The fault, if any, that the try block raises on outcome o.
FaultOf(o) ==
    IF o.fault # "none" THEN o.fault
    ELSE IF IsOk(o.status) /\ o.body.kind = "invalid" THEN "json"
    ELSE "none"

\* One call: the value returned or the exception raised, the file object
\* afterwards, and the HTTP request issued (sent, data).
transcribe_audio(file, o) ==
    LET rd == FileRead(file)
        f == FaultOf(o)
        after == IF o.fault = "read" THEN file ELSE rd.file
        sent == o.fault # "read"
        data == IF sent THEN rd.data ELSE <<>>
    IN  IF f # "none"
        THEN IF ExceptClause(f)
             THEN [raised |-> "none", value |-> ExceptionDict(f), file |-> after,
                   sent |-> sent, data |-> data]
             ELSE [raised |-> f, value |-> Unbound, file |-> after,
                   sent |-> sent, data |-> data]
        ELSE [raised |-> "none",
              value |-> IF IsOk(o.status) THEN ResponseJson(o.body)
                        ELSE ApiErrorDict(o.status, o.body),
              file |-> after, sent |-> sent, data |-> data]

(***************************************************************************)
(* log_error (lines 28-30)                                                 *)
(***************************************************************************)
\* f"{datetime.now()}: {error_message}\n"
LogLine(ts, msg) ==
    <<[k |-> "ts", v |-> ts], [k |-> "sep", v |-> ": "],
      [k |-> "msg", v |-> msg], [k |-> "nl", v |-> "\n"]>>

LineLen == Len(LogLine("t1", "timed out"))

RawWriteSizePartial(buf) == 1
\* Leaving the with block (line 29) flushes the buffered line to the file,
\* opened in append mode, in one write of the whole buffer.
RawWriteSize(buf) == Len(buf)

(***************************************************************************)
(* The script run (lines 32-181)                                           *)
(***************************************************************************)
logvars == <<writer, entries>>
envvars == <<has_timestamp, deterministic>>

Init ==
    /\ has_timestamp \in BOOLEAN
    /\ deterministic \in BOOLEAN
    /\ uploaded_file = NoFile
    /\ lang = "en"
    /\ retry_button = FALSE
    /\ event = "load"
    /\ widgets = {}
    /\ pc = "f5"
    /\ result = Unbound
    /\ reqs = <<>>
    /\ shown = {}
    /\ remote = {}
    /\ crashed = ""
    /\ logfile = <<>>
    /\ writer = [s \in Sessions |-> [pc |-> "idle", pending |-> <<>>, line |-> <<>>, calls |-> 0]]
    /\ entries = <<>>

\* A widget event reruns the script from its first line.
StartRun(e, file, l, retry) ==
    /\ pc = "idle"
    /\ event' = e
    /\ uploaded_file' = file
    /\ lang' = l
    /\ retry_button' = retry
    /\ widgets' = {}
    /\ pc' = "f5"
    /\ result' = Unbound
    /\ reqs' = <<>>
    /\ shown' = {}
    /\ remote' = {}
    /\ crashed' = ""
    /\ UNCHANGED <<envvars, logfile, logvars>>

\* The user uploads a file (line 38).
Upload ==
    \E c \in Contents :
        StartRun("upload", [present |-> TRUE, content |-> c, pos |-> 0], lang, FALSE)

\* The user removes the uploaded file (line 38).
ClearUpload ==
    /\ uploaded_file.present
    /\ StartRun("clear", NoFile, lang, FALSE)

\* The user picks another language in the select box (line 96).
LanguageChange ==
    /\ "lang" \in widgets
    /\ \E l \in Langs \ {lang} : StartRun("language", uploaded_file, l, FALSE)

\* The user presses Retry Transcription (line 155).
PressRetry ==
    /\ "retry" \in widgets
    /\ StartRun("retry", uploaded_file, lang, TRUE)

\* The user presses Sign In or View Past Transcriptions, or moves the
\* speed slider (lines 123, 129, 147).
OtherWidget ==
    /\ "other" \in widgets
    /\ StartRun("other", uploaded_file, lang, FALSE)

\* An uncaught exception ends the script run.
Crash(e) ==
    /\ pc' = "idle"
    /\ crashed' = e

\* The remote model answers as it did before for the same body when it is
\* deterministic.
RemoteAllows(data, o) ==
    (deterministic /\ o.fault = "none") =>
        \A p \in remote : p[1] = data => p[2] = [status |-> o.status, body |-> o.body]

\* A call of transcribe_audio(uploaded_file) from `site` on outcome o.
Call(site, o) ==
    LET c == transcribe_audio(uploaded_file, o)
    IN  /\ RemoteAllows(c.data, o)
        /\ uploaded_file' = c.file
        /\ reqs' = Append(reqs, [site |-> site, outcome |-> o, sent |-> c.sent,
                                 data |-> c.data, raised |-> c.raised, value |-> c.value])
        /\ remote' = IF o.fault = "none"
                     THEN remote \cup {<<c.data, [status |-> o.status, body |-> o.body]>>}
                     ELSE remote

\* Feature 5 (lines 59-63): pydub decodes the file object, which leaves its
\* read position anywhere, or raises when the bytes are not audio.
Feature5 ==
    /\ pc = "f5"
    /\ UNCHANGED <<envvars, lang, retry_button, event, widgets, result, reqs, shown,
                   remote, logfile, logvars>>
    /\ IF ~uploaded_file.present
       THEN pc' = "f16" /\ UNCHANGED <<uploaded_file, crashed>>
       ELSE \/ Crash("CouldntDecodeError") /\ UNCHANGED uploaded_file
            \/ /\ uploaded_file.content # <<>>
               /\ \E p \in 0..Len(uploaded_file.content) :
                      uploaded_file' = [uploaded_file EXCEPT !.pos = p]
               /\ pc' = "f6"
               /\ UNCHANGED crashed

\* Feature 6 (lines 66-72): the initial request; an exception that escapes
\* transcribe_audio is logged and shown, and leaves `result` unbound.
Feature6 ==
    /\ pc = "f6"
    /\ \E o \in Outcomes :
        /\ Call("initial", o)
        /\ LET c == transcribe_audio(uploaded_file, o)
           IN  IF c.raised = "none"
               THEN /\ result' = c.value
                    /\ UNCHANGED <<logfile, shown>>
               ELSE /\ result' = result
                    /\ \E ts \in Times :
                           logfile' = logfile \o LogLine(ts, StrOfFault(c.raised))
                    /\ shown' = shown \cup {[what |-> "exception", req |-> Len(reqs')]}
    /\ pc' = "f7"
    /\ UNCHANGED <<envvars, lang, retry_button, event, widgets, crashed, logvars>>

\* Feature 7-9 (lines 75-89): the transcript and its download.
Feature7 ==
    /\ pc = "f7"
    /\ UNCHANGED <<envvars, uploaded_file, lang, retry_button, event, widgets, result,
                   reqs, remote, logfile, logvars>>
    /\ IF result.type = "unbound"
       THEN Crash("NameError") /\ UNCHANGED shown
       ELSE IF result.type # "dict"
       THEN Crash("TypeError") /\ UNCHANGED shown
       ELSE /\ shown' = IF "text" \in result.keys
                        THEN shown \cup {[what |-> "transcript", req |-> Len(reqs)]}
                        ELSE shown
            /\ pc' = "f10"
            /\ UNCHANGED crashed

\* Feature 10 (lines 92-93): reads uploaded_file._timestamp.
Feature10 ==
    /\ pc = "f10"
    /\ UNCHANGED <<envvars, uploaded_file, lang, retry_button, event, widgets, result,
                   reqs, shown, remote, logfile, logvars>>
    /\ IF has_timestamp
       THEN pc' = "f11" /\ UNCHANGED crashed
       ELSE Crash("AttributeError")

\* Feature 11 (lines 96-98): the select box, and the re-request when the
\* language is not "en".
Feature11 ==
    /\ pc = "f11"
    /\ widgets' = widgets \cup {"lang"}
    /\ UNCHANGED <<envvars, lang, retry_button, event, shown, logfile, logvars>>
    /\ IF lang # "en"
       THEN \E o \in Outcomes :
               /\ Call("language", o)
               /\ LET c == transcribe_audio(uploaded_file, o)
                  IN  IF c.raised = "none"
                      THEN result' = c.value /\ pc' = "f12" /\ UNCHANGED crashed
                      ELSE result' = result /\ Crash("Exception")
       ELSE pc' = "f12" /\ UNCHANGED <<uploaded_file, result, reqs, remote, crashed>>

\* Feature 12-14 (lines 101-109): the error message, and the audio players.
Feature12 ==
    /\ pc = "f12"
    /\ UNCHANGED <<envvars, uploaded_file, lang, retry_button, event, widgets, result,
                   reqs, remote, logfile, logvars>>
    /\ IF result.type # "dict"
       THEN Crash("TypeError") /\ UNCHANGED shown
       ELSE /\ shown' = IF "error" \in result.keys
                        THEN shown \cup {[what |-> "error", req |-> Len(reqs)]}
                        ELSE shown
            /\ pc' = "f16"
            /\ UNCHANGED crashed

\* Feature 15-19 (lines 112-147): styling, Sign In, View Past Transcriptions
\* and the speed slider.
Feature16 ==
    /\ pc = "f16"
    /\ widgets' = widgets \cup {"other"}
    /\ pc' = "f20"
    /\ UNCHANGED <<envvars, uploaded_file, lang, retry_button, event, result, reqs,
                   shown, remote, crashed, logfile, logvars>>

\* Feature 20 (lines 150-152): reads uploaded_file.name.
Feature20 ==
    /\ pc = "f20"
    /\ UNCHANGED <<envvars, uploaded_file, lang, retry_button, event, widgets, result,
                   reqs, shown, remote, logfile, logvars>>
    /\ IF uploaded_file.present
       THEN pc' = "f21" /\ UNCHANGED crashed
       ELSE Crash("AttributeError")

\* Feature 21 (lines 155-158): the retry button and the retry request.
Feature21 ==
    /\ pc = "f21"
    /\ widgets' = widgets \cup {"retry"}
    /\ UNCHANGED <<envvars, lang, retry_button, event, shown, logfile, logvars>>
    /\ IF retry_button
       THEN \E o \in Outcomes :
               /\ Call("retry", o)
               /\ LET c == transcribe_audio(uploaded_file, o)
                  IN  IF c.raised = "none"
                      THEN result' = c.value /\ pc' = "f22" /\ UNCHANGED crashed
                      ELSE result' = result /\ Crash("Exception")
       ELSE pc' = "f22" /\ UNCHANGED <<uploaded_file, result, reqs, remote, crashed>>

\* Feature 22-25 (lines 161-180): the completion notice, the voice feedback
\* and the metadata, each under `"text" in result`.  The run ends.
Feature22 ==
    /\ pc = "f22"
    /\ UNCHANGED <<envvars, uploaded_file, lang, retry_button, event, widgets, result,
                   reqs, remote, logfile, logvars>>
    /\ IF result.type # "dict"
       THEN Crash("TypeError") /\ UNCHANGED shown
       ELSE /\ shown' = IF "text" \in result.keys
                        THEN shown \cup {[what |-> "complete", req |-> Len(reqs)],
                                         [what |-> "metadata", req |-> Len(reqs)]}
                        ELSE shown
            /\ pc' = "idle"
            /\ UNCHANGED crashed

Next ==
    \/ Upload
    \/ ClearUpload
    \/ LanguageChange
    \/ PressRetry
    \/ OtherWidget
    \/ Feature5
    \/ Feature6
    \/ Feature7
    \/ Feature10
    \/ Feature11
    \/ Feature12
    \/ Feature16
    \/ Feature20
    \/ Feature21
    \/ Feature22

Spec == Init /\ [][Next]_vars

(***************************************************************************)
(* log_error called from concurrent sessions                               *)
(***************************************************************************)
mainvars == <<has_timestamp, deterministic, uploaded_file, lang, retry_button, event,
              widgets, pc, result, reqs, shown, remote, crashed>>

\* The sessions only log: the script run's variables stay as constructed.
InitLog == Init /\ ~has_timestamp /\ ~deterministic

\* open("error_log.txt", "a") (line 29).
LogOpen(s) ==
    /\ writer[s].pc = "idle"
    /\ writer[s].calls < MaxCalls
    /\ writer' = [writer EXCEPT ![s].pc = "open", ![s].calls = @ + 1]
    /\ UNCHANGED <<mainvars, logfile, entries>>

\* log_file.write(...) (line 30): the line goes to the file object's buffer.
LogWrite(s) ==
    /\ writer[s].pc = "open"
    /\ \E ts \in Times, m \in Messages :
        writer' = [writer EXCEPT ![s].pc = "written", ![s].pending = LogLine(ts, m),
                                 ![s].line = LogLine(ts, m)]
    /\ UNCHANGED <<mainvars, logfile, entries>>

\* The end of the with block: the buffer is written at the end of the file
\* and the file closed; log_error returns.
LogClose(s) ==
    /\ writer[s].pc \in {"written", "flushing"}
    /\ LET buf == writer[s].pending
           n == RawWriteSize(buf)
           rest == SubSeq(buf, n + 1, Len(buf))
       IN  /\ logfile' = logfile \o SubSeq(buf, 1, n)
           /\ IF rest = <<>>
              THEN /\ writer' = [writer EXCEPT ![s].pc = "idle", ![s].pending = <<>>]
                   /\ entries' = Append(entries,
                          [line |-> writer[s].line,
                           overlapped |-> \E t \in Sessions \ {s} : writer[t].pc # "idle"])
              ELSE /\ writer' = [writer EXCEPT ![s].pc = "flushing", ![s].pending = rest]
                   /\ UNCHANGED entries
    /\ UNCHANGED mainvars

NextLog ==
    \E s \in Sessions :
        \/ LogOpen(s)
        \/ LogWrite(s)
        \/ LogClose(s)

SpecLog == InitLog /\ [][NextLog]_vars

(***************************************************************************)
(* Properties                                                              *)
(***************************************************************************)
Calls == 1..Len(reqs)
IsSuccess(v) == v.type = "dict" /\ "text" \in v.keys /\ "error" \notin v.keys
IsFailure(v) == v.type = "dict" /\ "error" \in v.keys /\ "text" \notin v.keys
Raises(o) == o.fault # "none" \/ (o.status = 200 /\ o.body.kind = "invalid")
IsTranscript(o) ==
    o.fault = "none" /\ o.status = 200 /\ o.body.kind = "obj" /\ o.body.keys = {"text"}
RunEnded == pc = "idle"

\* C1: every call of transcribe_audio that returns a Failure (an API error
\* or a caught exception) appends exactly one line to the error log.
C1_FailureIsLogged ==
    [][(Len(reqs') = Len(reqs) + 1 /\ IsFailure(reqs'[Len(reqs')].value))
          => \E ts \in Times :
                logfile' = logfile \o LogLine(ts, reqs'[Len(reqs')].value.error.msg)]_vars

\* C2: transcribe_audio never raises: every call returns a value, and a call
\* in which file.read(), requests.post or response.json() raised returns
\* {"error": <the exception's message>}.
C2_NeverRaises ==
    /\ crashed \notin {"Exception", "NameError"}
    /\ \A i \in Calls :
        /\ reqs[i].raised = "none"
        /\ reqs[i].value.type # "unbound"
        /\ Raises(reqs[i].outcome) =>
              /\ reqs[i].value.type = "dict"
              /\ reqs[i].value.keys = {"error"}
              /\ reqs[i].value.error.msg =
                    (IF reqs[i].outcome.fault # "none"
                     THEN StrOfFault(reqs[i].outcome.fault)
                     ELSE StrOfFault("json"))

\* C2 witness: a run has gone on past a call whose 200 response was not JSON
\* and past a call whose post raised.
C2_Witness ==
    /\ \E i \in Calls : reqs[i].outcome.status = 200 /\ reqs[i].outcome.body.kind = "invalid"
    /\ \E i \in Calls : reqs[i].outcome.fault = "refused"
    /\ RunEnded /\ crashed = ""

\* C3: every value transcribe_audio returns has exactly one of the keys text
\* and error.
C3_ExactlyOneVariant ==
    \A i \in Calls :
        /\ reqs[i].value.type = "dict"
        /\ ("text" \in reqs[i].value.keys) # ("error" \in reqs[i].value.keys)

\* C4: a 2xx response whose JSON body has a text field gives Success with that
\* text and no log entry; a non-2xx response gives an API-error Failure with
\* the status code and the body.
C4_StatusClass ==
    \A i \in Calls :
        LET o == reqs[i].outcome
            v == reqs[i].value
        IN  o.fault = "none" =>
              /\ (o.status \in 200..299 /\ o.body.kind = "obj" /\ "text" \in o.body.keys) =>
                    /\ IsSuccess(v)
                    /\ v.text = o.body.text
                    /\ logfile = <<>>
              /\ o.status \notin 200..299 =>
                    /\ IsFailure(v)
                    /\ v.error.kind = "api"
                    /\ v.error.status = o.status
                    /\ v.error.body = o.body

\* C5: no HTTP request is issued with an empty body.
C5_NoEmptyRequest ==
    \A i \in Calls : reqs[i].sent => reqs[i].data # <<>>

\* C6: the retry request carries the bytes the run's first request carried.
C6_RetrySameBytes ==
    \A i \in Calls :
        (reqs[i].site = "retry" /\ reqs[i].sent /\ reqs[1].sent)
            => reqs[i].data = reqs[1].data

\* C7: with a remote model that is a function of the request body and answers
\* with transcripts, two successive calls on the same file object return the
\* same text.
C7_Idempotent ==
    deterministic =>
        \A i \in Calls :
            (i + 1 \in Calls /\ IsTranscript(reqs[i].outcome)
                /\ IsTranscript(reqs[i + 1].outcome))
                => reqs[i + 1].value.text = reqs[i].value.text

\* C8: a script run is started by one user action and issues exactly one
\* request when that action is an upload, a language change or a retry, and
\* none otherwise; so no request follows a failed one in the same run.
C8_OneRequestPerAction ==
    /\ Len(reqs) <= (IF event \in {"upload", "language", "retry"} THEN 1 ELSE 0)
    /\ (RunEnded /\ crashed = "" /\ event \in {"upload", "language", "retry"})
          => Len(reqs) = 1

C10_FailuresShown ==
    (RunEnded /\ crashed = "") =>
        /\ \A i \in Calls :
              "error" \in reqs[i].value.keys => [what |-> "error", req |-> i] \in shown
        /\ \A a, b \in shown : a.req = b.req

====
